---- MODULE Spec2Model ----
(***************************************************************************)
(* A model of sun-builder: SunImage (time parsing, twilight derivation,    *)
(* label placement, the render sequence of getImage) and                   *)
(* SunBuilder.CreateImages.                                                *)
(*                                                                         *)
(* Conventions.                                                            *)
(*  - A JavaScript string is a sequence of one-character strings, so that  *)
(*    split(), Number() and the template literals are computed character   *)
(*    by character.  The alphabet of the inputs is the digits, ":", "-",   *)
(*    "." (only in trailing fields) and letters.                           *)
(*  - A dial angle is an integer count of quarter degrees (Deg(d) = 4*d):  *)
(*    getAngle's  h*15 + m/4  degrees is  h*60 + m  quarter degrees, which *)
(*    keeps the minute resolution exact.                                   *)
(*  - A render angle (radians) is an integer count of PI/720, the image of *)
(*    a quarter degree under the factor Math.PI/180.                       *)
(***************************************************************************)
EXTENDS Integers, Sequences, FiniteSets

VARIABLES
    pc,        \* position of the one CreateImages call
    SunJson,   \* the record getImage works on (NoData = null)
    upstream,  \* the record as getSunData returned it
    logs,      \* logger calls so far, in order
    trace,     \* calls and drawing operations so far, in order
    angles,    \* sunriseAngle, sunsetAngle, amTwilightAngle, pmTwilightAngle, currentTimeAngle
    slots,     \* sunriseXY, amTwilightXY, sunsetXY, pmTwilightXY
    result,    \* what getImage returned
    saved,     \* the writer.saveFile calls so far
    created,   \* what CreateImages returned
    fnName,    \* function harness: the function applied
    fnIn,      \* function harness: the input case
    fnOut      \* function harness: the value returned and the warnings logged

vars == <<pc, SunJson, upstream, logs, trace, angles, slots, result, saved, created,
          fnName, fnIn, fnOut>>

procVars == <<pc, SunJson, upstream, logs, trace, angles, slots, result, saved, created>>
fnVars == <<fnName, fnIn, fnOut>>

----------------------------------------------------------------------------
(* JavaScript primitives used by SunImage *)

Digits == <<"0", "1", "2", "3", "4", "5", "6", "7", "8", "9">>

IsDigit(c) == \E i \in 1..10 : Digits[i] = c

DigitVal(c) == (CHOOSE i \in 1..10 : Digits[i] = c) - 1

\* String.prototype.split with a one-character separator
RECURSIVE split(_, _)
split(s, sep) ==
    IF \E i \in 1..Len(s) : s[i] = sep
    THEN LET i == CHOOSE k \in 1..Len(s) :
                      s[k] = sep /\ \A j \in 1..(k - 1) : s[j] # sep
         IN  <<SubSeq(s, 1, i - 1)>> \o split(SubSeq(s, i + 1, Len(s)), sep)
    ELSE <<s>>

RECURSIVE DecVal(_)
DecVal(s) ==
    IF Len(s) = 0 THEN 0
    ELSE 10 * DecVal(SubSeq(s, 1, Len(s) - 1)) + DigitVal(s[Len(s)])

AllDigits(s) == Len(s) > 0 /\ \A i \in 1..Len(s) : IsDigit(s[i])

\* Number(s) and unary +s: the empty string converts to 0, an optionally
\* signed run of digits to its value, anything else to NaN.
Number(s) ==
    IF Len(s) = 0 THEN [nan |-> FALSE, val |-> 0]
    ELSE IF AllDigits(s) THEN [nan |-> FALSE, val |-> DecVal(s)]
    ELSE IF s[1] = "-" /\ AllDigits(Tail(s))
         THEN [nan |-> FALSE, val |-> 0 - DecVal(Tail(s))]
    ELSE [nan |-> TRUE, val |-> 0]

RECURSIVE NatToString(_)
NatToString(n) ==
    IF n < 10 THEN <<Digits[n + 1]>>
    ELSE NatToString(n \div 10) \o <<Digits[(n % 10) + 1]>>

\* `${n}` of an integer
NumToString(n) == IF n < 0 THEN <<"-">> \o NatToString(0 - n) ELSE NatToString(n)

\* a % n of JavaScript: the remainder takes the sign of the dividend
JsRem(a, n) == IF a >= 0 THEN a % n ELSE 0 - ((0 - a) % n)

\* d degrees in quarter degrees
Deg(d) == 4 * d

Warn(fn) == <<[level |-> "warn", fn |-> fn]>>

----------------------------------------------------------------------------
(* SunImage: the pure functions *)

twilightDegrees == 24

\* the validation shared by getAngle, formatTime and getTwilight
timeInvalid(timeElements) ==
    \/ Len(timeElements) < 2
    \/ Number(timeElements[1]).nan
    \/ Number(timeElements[2]).nan
    \/ Number(timeElements[1]).val < 0
    \/ Number(timeElements[1]).val > 23
    \/ Number(timeElements[2]).val < 0
    \/ Number(timeElements[2]).val > 59

\* mutant: the minutes are added as whole degrees (the division by 4 is lost)
getAngle_noQuarter(timeStr) ==
    LET timeElements == split(timeStr, ":")
    IN  IF timeInvalid(timeElements)
        THEN [ret |-> 0, warn |-> Warn("getAngle")]
        ELSE [ret |-> Number(timeElements[1]).val * Deg(15)
                        + Deg(Number(timeElements[2]).val),
              warn |-> <<>>]

getAngle(timeStr) ==
    LET timeElements == split(timeStr, ":")
    IN  IF timeInvalid(timeElements)
        THEN [ret |-> 0, warn |-> Warn("getAngle")]
        ELSE [ret |-> Number(timeElements[1]).val * Deg(15) + Number(timeElements[2]).val,
              warn |-> <<>>]

getRenderAngle(timeAngle) ==
    LET renderAngle1 == timeAngle + Deg(180) - Deg(90)
        renderAngle2 == JsRem(renderAngle1, Deg(360))
    IN  renderAngle2

\* mutant: noon is still AM (hour > 12 instead of hour > 11)
formatTime_pmAfter12(timeStr) ==
    LET timeElements == split(timeStr, ":")
    IN  IF timeInvalid(timeElements)
        THEN [ret |-> <<>>, warn |-> Warn("formatTime")]
        ELSE LET hour0   == JsRem(Number(timeElements[1]).val, 12)
                 hour    == IF hour0 = 0 THEN 12 ELSE hour0
                 min     == Number(timeElements[2]).val
                 minStr  == IF min < 10 THEN <<"0">> \o NumToString(min) ELSE NumToString(min)
                 amPmStr == IF Number(timeElements[1]).val > 12
                            THEN <<"P", "M">> ELSE <<"A", "M">>
             IN  [ret |-> NumToString(hour) \o <<":">> \o minStr \o <<" ">> \o amPmStr,
                  warn |-> <<>>]

formatTime(timeStr) ==
    LET timeElements == split(timeStr, ":")
    IN  IF timeInvalid(timeElements)
        THEN [ret |-> <<>>, warn |-> Warn("formatTime")]
        ELSE LET hour0   == JsRem(Number(timeElements[1]).val, 12)
                 hour    == IF hour0 = 0 THEN 12 ELSE hour0
                 min     == Number(timeElements[2]).val
                 minStr  == IF min < 10 THEN <<"0">> \o NumToString(min) ELSE NumToString(min)
                 amPmStr == IF Number(timeElements[1]).val > 11
                            THEN <<"P", "M">> ELSE <<"A", "M">>
             IN  [ret |-> NumToString(hour) \o <<":">> \o minStr \o <<" ">> \o amPmStr,
                  warn |-> <<>>]

getTwilight(timeStr, amPm) ==
    LET timeElements == split(timeStr, ":")
    IN  IF timeInvalid(timeElements)
        THEN [ret |-> <<>>, warn |-> Warn("getTwilight")]
        ELSE LET hour0 == JsRem(Number(timeElements[1]).val, 12)
                 hour1 == IF hour0 = 0 THEN 12 ELSE hour0
                 min1  == Number(timeElements[2]).val
                 hm    == IF amPm = "am"
                          THEN IF min1 >= 36
                               THEN [min |-> min1 - 36, hour |-> hour1 - 1]
                               ELSE [min |-> min1 + 24, hour |-> hour1 - 2]
                          ELSE IF min1 < 36
                               THEN [min |-> min1 + 24, hour |-> hour1 + 1]
                               ELSE [min |-> min1 - 36, hour |-> hour1 + 2]
                 hourStr == IF hm.hour < 10 THEN <<"0">> \o NumToString(hm.hour)
                            ELSE NumToString(hm.hour)
                 minStr  == IF hm.min < 10 THEN <<"0">> \o NumToString(hm.min)
                            ELSE NumToString(hm.min)
             IN  [ret |-> hourStr \o <<":">> \o minStr, warn |-> <<>>]

----------------------------------------------------------------------------
(* SunImage.getImage: label placement *)

labelSlots ==
    <<[x |-> 400,  y |-> 330], [x |-> 350,  y |-> 450], [x |-> 350,  y |-> 700],
      [x |-> 400,  y |-> 820], [x |-> 1490, y |-> 330], [x |-> 1540, y |-> 450],
      [x |-> 1540, y |-> 700], [x |-> 1490, y |-> 820], [x |-> 1440, y |-> 940]>>

\* labelSlots[i] of the source, whose indices start at 0
Slot(i) == labelSlots[i + 1]

\* mutant: the first bound is open (sunriseAngle < 90)
sunriseSlots_openAt90(sunriseAngle) ==
    IF sunriseAngle < Deg(90)
    THEN [sunriseXY |-> Slot(2), amTwilightXY |-> Slot(3)]
    ELSE IF sunriseAngle < Deg(90) + Deg(twilightDegrees)
    THEN [sunriseXY |-> Slot(1), amTwilightXY |-> Slot(2)]
    ELSE [sunriseXY |-> Slot(0), amTwilightXY |-> Slot(1)]

sunriseSlots(sunriseAngle) ==
    IF sunriseAngle <= Deg(90)
    THEN [sunriseXY |-> Slot(2), amTwilightXY |-> Slot(3)]
    ELSE IF sunriseAngle < Deg(90) + Deg(twilightDegrees)
    THEN [sunriseXY |-> Slot(1), amTwilightXY |-> Slot(2)]
    ELSE [sunriseXY |-> Slot(0), amTwilightXY |-> Slot(1)]

sunsetSlots(sunsetAngle) ==
    IF sunsetAngle <= Deg(270) - Deg(twilightDegrees)
    THEN [sunsetXY |-> Slot(4), pmTwilightXY |-> Slot(5)]
    ELSE IF sunsetAngle < Deg(270)
    THEN [sunsetXY |-> Slot(5), pmTwilightXY |-> Slot(6)]
    ELSE IF sunsetAngle <= Deg(270) + Deg(20)
    THEN [sunsetXY |-> Slot(6), pmTwilightXY |-> Slot(7)]
    ELSE [sunsetXY |-> Slot(7), pmTwilightXY |-> Slot(8)]

----------------------------------------------------------------------------
(* Function harness: each pure function applied once to one input case *)

HourSlack == 2
MinSlack == 2
MaxAngle == 400

MaxHour == 23
MaxMinute == 59

Pad2(n) == IF 0 <= n /\ n < 10 THEN <<"0">> \o NumToString(n) ELSE NumToString(n)

\* the forms a time takes upstream: "07:05", "7:5", "07:05:14.988"
TimeStyles == {"hh:mm", "h:m", "hh:mm:ss.mmm"}

TimeString(h, m, style) ==
    CASE style = "hh:mm" -> Pad2(h) \o <<":">> \o Pad2(m)
      [] style = "h:m"   -> NumToString(h) \o <<":">> \o NumToString(m)
      [] OTHER           -> Pad2(h) \o <<":">> \o Pad2(m) \o <<":", "1", "4", ".", "9", "8", "8">>

TimeClass(h, m) ==
    IF h < 0 \/ h > MaxHour THEN "badHour"
    ELSE IF m < 0 \/ m > MaxMinute THEN "badMinute"
    ELSE "valid"

TimeCases ==
    {[kind |-> "time", h |-> h, m |-> m, style |-> st, str |-> TimeString(h, m, st),
      cls |-> TimeClass(h, m), a |-> 0] :
        h \in (0 - HourSlack)..(MaxHour + HourSlack),
        m \in (0 - MinSlack)..(MaxMinute + MinSlack),
        st \in TimeStyles}

Literal(str, cls) ==
    [kind |-> "literal", h |-> 0, m |-> 0, style |-> "", str |-> str, cls |-> cls, a |-> 0]

\* malformed strings that are not an hour:minute pair of integers
LiteralCases ==
    {Literal(<<"a", "b", "c">>, "fewFields"),
     Literal(<<"1", "2">>, "fewFields"),
     Literal(<<>>, "fewFields"),
     Literal(<<"a", "b", ":", "c", "d">>, "nonNumeric"),
     Literal(<<"1", "2", ":", "x", "x">>, "nonNumeric"),
     Literal(<<"x", "x", ":", "3", "0">>, "nonNumeric"),
     Literal(<<"-", ":", "-">>, "nonNumeric"),
     Literal(<<"0", "-", "1", ":", "2", "4">>, "nonNumeric"),
     Literal(<<"1", "2", ":">>, "emptyField"),
     Literal(<<":", "3", "0">>, "emptyField"),
     Literal(<<":">>, "emptyField")}

AngleCases ==
    {[kind |-> "angle", h |-> 0, m |-> 0, style |-> "", str |-> <<>>, cls |-> "", a |-> a] :
        a \in (0 - Deg(MaxAngle))..Deg(MaxAngle)}

FnCases == TimeCases \cup LiteralCases \cup AngleCases

\* null, as getSunData and getImage return it
NullJson ==
    [isNull |-> TRUE, sunrise |-> <<>>, sunset |-> <<>>, moonrise |-> <<>>,
     moonset |-> <<>>, current_time |-> <<>>, firstLight |-> <<>>, lastLight |-> <<>>]

NoResult == [kind |-> "none", imageType |-> "", imageData |-> ""]
NullResult == [kind |-> "null", imageType |-> "", imageData |-> ""]

ProcIdle ==
    /\ pc = "idle"
    /\ SunJson = NullJson
    /\ upstream = NullJson
    /\ logs = <<>>
    /\ trace = <<>>
    /\ angles = [sunriseAngle |-> 0, sunsetAngle |-> 0, amTwilightAngle |-> 0,
                 pmTwilightAngle |-> 0, currentTimeAngle |-> 0]
    /\ slots = [sunriseXY |-> Slot(0), amTwilightXY |-> Slot(0),
                sunsetXY |-> Slot(0), pmTwilightXY |-> Slot(0)]
    /\ result = NoResult
    /\ saved = <<>>
    /\ created = "pending"

FnIdle ==
    /\ fnName = "none"
    /\ fnOut = [ret |-> 0, warn |-> <<>>, amPm |-> ""]

FnInit ==
    /\ ProcIdle
    /\ FnIdle
    /\ fnIn \in FnCases

CallGetAngle ==
    /\ fnName = "none"
    /\ fnIn.kind \in {"time", "literal"}
    /\ fnName' = "getAngle"
    /\ fnOut' = [ret |-> getAngle(fnIn.str).ret, warn |-> getAngle(fnIn.str).warn, amPm |-> ""]
    /\ UNCHANGED <<fnIn, procVars>>

CallFormatTime ==
    /\ fnName = "none"
    /\ fnIn.kind \in {"time", "literal"}
    /\ fnName' = "formatTime"
    /\ fnOut' = [ret |-> formatTime(fnIn.str).ret, warn |-> formatTime(fnIn.str).warn,
                 amPm |-> ""]
    /\ UNCHANGED <<fnIn, procVars>>

CallGetTwilight ==
    /\ fnName = "none"
    /\ fnIn.kind \in {"time", "literal"}
    /\ \E amPm \in {"am", "pm"} :
          /\ fnName' = "getTwilight"
          /\ fnOut' = [ret |-> getTwilight(fnIn.str, amPm).ret,
                       warn |-> getTwilight(fnIn.str, amPm).warn, amPm |-> amPm]
    /\ UNCHANGED <<fnIn, procVars>>

CallGetRenderAngle ==
    /\ fnName = "none"
    /\ fnIn.kind = "angle"
    /\ fnName' = "getRenderAngle"
    /\ fnOut' = [ret |-> getRenderAngle(fnIn.a), warn |-> <<>>, amPm |-> ""]
    /\ UNCHANGED <<fnIn, procVars>>

\* label placement with the time as sunrise and as sunset
CallLabelSlots ==
    /\ fnName = "none"
    /\ fnIn.kind \in {"time", "literal"}
    /\ fnName' = "labelSlots"
    /\ fnOut' = [ret |-> [sunrise |-> sunriseSlots(getAngle(fnIn.str).ret),
                          sunset  |-> sunsetSlots(getAngle(fnIn.str).ret)],
                 warn |-> getAngle(fnIn.str).warn, amPm |-> ""]
    /\ UNCHANGED <<fnIn, procVars>>

FnNext ==
    \/ CallGetAngle
    \/ CallFormatTime
    \/ CallGetTwilight
    \/ CallGetRenderAngle
    \/ CallLabelSlots

SpecFn == FnInit /\ [][FnNext]_vars

----------------------------------------------------------------------------
(* SunBuilder.CreateImages and SunImage.getImage, step by step *)

Sentinel == <<"-", ":", "-">>

\* upstream records: the June and December cases of the test driver, the
\* 6:00 boundary, and malformed strings
Sunrises == {<<"0", "5", ":", "1", "0">>, <<"0", "7", ":", "0", "5">>,
             <<"0", "6", ":", "0", "0">>, <<"a", "b", "c">>, <<>>}
Sunsets == {<<"2", "0", ":", "2", "5">>, <<"1", "6", ":", "2", "0">>,
            <<"1", "8", ":", "0", "0">>, <<"2", "5", ":", "0", "0">>}
CurrentTimes == {<<"0", "8", ":", "2", "1", ":", "1", "4", ".", "9", "8", "8">>,
                 <<"2", "1", ":", "0", "0", ":", "0", "0", ".", "0", "0", "0">>,
                 <<"0", "6", ":", "0", "0", ":", "0", "0", ".", "0", "0", "0">>,
                 <<"1", "8", ":", "0", "0", ":", "3", "0", ".", "0", "0", "0">>,
                 <<"1", "2">>}
Moonrises == {Sentinel, <<"0", "5", ":", "4", "0">>}
Moonsets == {Sentinel, <<"1", "9", ":", "3", "0">>}

SunJsonInputs ==
    {[isNull |-> FALSE, sunrise |-> sr, sunset |-> ss, moonrise |-> mr, moonset |-> ms,
      current_time |-> ct, firstLight |-> <<>>, lastLight |-> <<>>] :
        sr \in Sunrises, ss \in Sunsets, mr \in Moonrises, ms \in Moonsets,
        ct \in CurrentTimes}

Ev(op, what, n) == [op |-> op, what |-> what, n |-> n]

Info(fn) == <<[level |-> "info", fn |-> fn]>>
Error(fn) == <<[level |-> "error", fn |-> fn]>>

Init ==
    /\ ProcIdle
    /\ FnIdle
    /\ fnIn = [kind |-> "none", h |-> 0, m |-> 0, style |-> "", str |-> <<>>,
               cls |-> "", a |-> 0]

\* CreateImages: new SunImage, then the call of getImage
CreateImagesEnter ==
    /\ pc = "idle"
    /\ pc' = "getSunData"
    /\ UNCHANGED <<SunJson, upstream, logs, trace, angles, slots, result, saved, created,
                   fnVars>>

\* getImage: getSunData returns a record
GetSunDataRecord ==
    /\ pc = "getSunData"
    /\ \E rec \in SunJsonInputs :
          /\ SunJson' = rec
          /\ upstream' = rec
    /\ trace' = Append(trace, Ev("getSunData", "record", 0))
    /\ pc' = "twilight"
    /\ UNCHANGED <<logs, angles, slots, result, saved, created, fnVars>>

\* getImage: getSunData returns null, and getImage returns null at once
GetSunDataNull ==
    /\ pc = "getSunData"
    /\ SunJson' = NullJson
    /\ upstream' = NullJson
    /\ trace' = Append(trace, Ev("getSunData", "null", 0))
    /\ result' = NullResult
    /\ pc' = "gotResult"
    /\ UNCHANGED <<logs, angles, slots, saved, created, fnVars>>

\* getImage: getSunData throws, which passes through getImage to CreateImages
GetSunDataThrows ==
    /\ pc = "getSunData"
    /\ trace' = Append(trace, Ev("getSunData", "throw", 0))
    /\ pc' = "catch"
    /\ UNCHANGED <<SunJson, upstream, logs, angles, slots, result, saved, created, fnVars>>

\* mutant: a time that does not parse aborts the render
DeriveTwilight_throwsOnInvalid ==
    /\ pc = "twilight"
    /\ SunJson' = [SunJson EXCEPT !.firstLight = getTwilight(SunJson.sunrise, "am").ret,
                                  !.lastLight  = getTwilight(SunJson.sunset, "pm").ret]
    /\ logs' = logs \o getTwilight(SunJson.sunrise, "am").warn
                    \o getTwilight(SunJson.sunset, "pm").warn
    /\ trace' = trace \o <<Ev("getTwilight", "am", 0), Ev("getTwilight", "pm", 0)>>
    /\ pc' = IF getTwilight(SunJson.sunrise, "am").warn = <<>>
                 /\ getTwilight(SunJson.sunset, "pm").warn = <<>>
              THEN "moon" ELSE "catch"
    /\ UNCHANGED <<upstream, angles, slots, result, saved, created, fnVars>>

\* getImage: firstLight and lastLight
DeriveTwilight ==
    /\ pc = "twilight"
    /\ SunJson' = [SunJson EXCEPT !.firstLight = getTwilight(SunJson.sunrise, "am").ret,
                                  !.lastLight  = getTwilight(SunJson.sunset, "pm").ret]
    /\ logs' = logs \o getTwilight(SunJson.sunrise, "am").warn
                    \o getTwilight(SunJson.sunset, "pm").warn
    /\ trace' = trace \o <<Ev("getTwilight", "am", 0), Ev("getTwilight", "pm", 0)>>
    /\ pc' = "moon"
    /\ UNCHANGED <<upstream, angles, slots, result, saved, created, fnVars>>

\* mutant: only moonrise is normalised
fixMoon_moonriseOnly(json) ==
    [json EXCEPT !.moonrise = IF json.moonrise = Sentinel THEN <<"0", ":", "0">>
                              ELSE json.moonrise]

\* the two sentinel replacements
fixMoon(json) ==
    [json EXCEPT !.moonrise = IF json.moonrise = Sentinel THEN <<"0", ":", "0">>
                              ELSE json.moonrise,
                 !.moonset  = IF json.moonset = Sentinel THEN <<"2", "3", ":", "5", "9">>
                              ELSE json.moonset]

FixMoon ==
    /\ pc = "moon"
    /\ SunJson' = fixMoon(SunJson)
    /\ trace' = Append(trace, Ev("moonFix", "", 0))
    /\ pc' = "setup"
    /\ UNCHANGED <<upstream, logs, angles, slots, result, saved, created, fnVars>>

\* getImage: fonts registered and loaded, canvas and context made
Setup ==
    /\ pc = "setup"
    /\ trace' = trace \o <<Ev("loadFonts", "", 0), Ev("make", "", 0)>>
    /\ pc' = "background"
    /\ UNCHANGED <<SunJson, upstream, logs, angles, slots, result, saved, created, fnVars>>

\* getImage: loadSync throws on a missing font file
SetupThrows ==
    /\ pc = "setup"
    /\ trace' = Append(trace, Ev("loadFonts", "throw", 0))
    /\ pc' = "catch"
    /\ UNCHANGED <<SunJson, upstream, logs, angles, slots, result, saved, created, fnVars>>

DrawBackground ==
    /\ pc = "background"
    /\ trace' = Append(trace, Ev("myFillRect", "background", 0))
    /\ pc' = "title"
    /\ UNCHANGED <<SunJson, upstream, logs, angles, slots, result, saved, created, fnVars>>

DrawTitle ==
    /\ pc = "title"
    /\ trace' = Append(trace, Ev("fillText", "title", 0))
    /\ pc' = "ticks"
    /\ UNCHANGED <<SunJson, upstream, logs, angles, slots, result, saved, created, fnVars>>

\* for (i = 0; i < 360; i += step) { rotate(step); stroke() }
TickLoop(step, what) ==
    [k \in 1..(2 * (360 \div step)) |->
        IF k % 2 = 1 THEN Ev("rotate", what, Deg(step)) ELSE Ev("stroke", what, 0)]

\* mutant: the major ticks are drawn before the minor ticks
DrawTicks_majorFirst ==
    /\ pc = "ticks"
    /\ trace' = trace \o <<Ev("save", "", 0), Ev("translate", "center", 1)>>
                      \o TickLoop(90, "majorTick")
                      \o TickLoop(15, "minorTick")
                      \o <<Ev("restore", "", 0)>>
    /\ pc' = "testCircle"
    /\ UNCHANGED <<SunJson, upstream, logs, angles, slots, result, saved, created, fnVars>>

DrawTicks ==
    /\ pc = "ticks"
    /\ trace' = trace \o <<Ev("save", "", 0), Ev("translate", "center", 1)>>
                      \o TickLoop(15, "minorTick")
                      \o TickLoop(90, "majorTick")
                      \o <<Ev("restore", "", 0)>>
    /\ pc' = "testCircle"
    /\ UNCHANGED <<SunJson, upstream, logs, angles, slots, result, saved, created, fnVars>>

\* the test circle is a path that is never stroked (ctx.stroke is not called)
DrawTestCircle ==
    /\ pc = "testCircle"
    /\ logs' = logs \o Info("getImage") \o Info("getImage")
    /\ trace' = Append(trace, Ev("arc", "testCircle", 0))
    /\ pc' = "dialCircle"
    /\ UNCHANGED <<SunJson, upstream, angles, slots, result, saved, created, fnVars>>

DrawDialCircle ==
    /\ pc = "dialCircle"
    /\ trace' = Append(trace, Ev("stroke", "dialCircle", 0))
    /\ pc' = "cardinals"
    /\ UNCHANGED <<SunJson, upstream, logs, angles, slots, result, saved, created, fnVars>>

DrawCardinalLabels ==
    /\ pc = "cardinals"
    /\ trace' = trace \o <<Ev("fillText", "12 PM", 0), Ev("fillText", "12 AM", 0),
                           Ev("fillText", "6 AM", 0), Ev("fillText", "6 PM", 0)>>
    /\ pc' = "angles"
    /\ UNCHANGED <<SunJson, upstream, logs, angles, slots, result, saved, created, fnVars>>

ComputeAngles ==
    /\ pc = "angles"
    /\ angles' = [sunriseAngle     |-> getAngle(SunJson.sunrise).ret,
                  sunsetAngle      |-> getAngle(SunJson.sunset).ret,
                  amTwilightAngle  |-> getAngle(SunJson.sunrise).ret - Deg(twilightDegrees),
                  pmTwilightAngle  |-> getAngle(SunJson.sunset).ret + Deg(twilightDegrees),
                  currentTimeAngle |-> getAngle(SunJson.current_time).ret]
    /\ logs' = logs \o getAngle(SunJson.sunrise).warn \o getAngle(SunJson.sunset).warn
                    \o getAngle(SunJson.current_time).warn
    /\ trace' = trace \o <<Ev("getAngle", "sunrise", 0), Ev("getAngle", "sunset", 0),
                           Ev("getAngle", "current_time", 0)>>
    /\ pc' = "dayArc"
    /\ UNCHANGED <<SunJson, upstream, slots, result, saved, created, fnVars>>

DrawDayArc ==
    /\ pc = "dayArc"
    /\ trace' = Append(trace, Ev("stroke", "dayArc", 0))
    /\ pc' = "amArc"
    /\ UNCHANGED <<SunJson, upstream, logs, angles, slots, result, saved, created, fnVars>>

DrawAmTwilightArc ==
    /\ pc = "amArc"
    /\ trace' = Append(trace, Ev("stroke", "amTwilightArc", 0))
    /\ pc' = "sunriseLine"
    /\ UNCHANGED <<SunJson, upstream, logs, angles, slots, result, saved, created, fnVars>>

\* mutant: the marker block does not restore the context
Marker_noRestore(what, angle, untranslate) ==
    <<Ev("save", "", 0), Ev("translate", "center", 1),
      Ev("rotate", what, getRenderAngle(angle)), Ev("stroke", what, 0),
      Ev("rotate", what, 0 - getRenderAngle(angle))>>
    \o (IF untranslate THEN <<Ev("translate", "center", 0 - 1)>> ELSE <<>>)

\* save, translate, rotate, stroke, rotate back, [translate back,] restore
Marker(what, angle, untranslate) ==
    <<Ev("save", "", 0), Ev("translate", "center", 1),
      Ev("rotate", what, getRenderAngle(angle)), Ev("stroke", what, 0),
      Ev("rotate", what, 0 - getRenderAngle(angle))>>
    \o (IF untranslate THEN <<Ev("translate", "center", 0 - 1)>> ELSE <<>>)
    \o <<Ev("restore", "", 0)>>

DrawSunriseLine ==
    /\ pc = "sunriseLine"
    /\ trace' = trace \o Marker("sunriseLine", angles.sunriseAngle, FALSE)
    /\ pc' = "amLine"
    /\ UNCHANGED <<SunJson, upstream, logs, angles, slots, result, saved, created, fnVars>>

DrawAmTwilightLine ==
    /\ pc = "amLine"
    /\ trace' = trace \o Marker("amTwilightLine", angles.amTwilightAngle, FALSE)
    /\ pc' = "pmArc"
    /\ UNCHANGED <<SunJson, upstream, logs, angles, slots, result, saved, created, fnVars>>

DrawPmTwilightArc ==
    /\ pc = "pmArc"
    /\ trace' = Append(trace, Ev("stroke", "pmTwilightArc", 0))
    /\ pc' = "sunsetLine"
    /\ UNCHANGED <<SunJson, upstream, logs, angles, slots, result, saved, created, fnVars>>

DrawSunsetLine ==
    /\ pc = "sunsetLine"
    /\ trace' = trace \o Marker("sunsetLine", angles.sunsetAngle, TRUE)
    /\ pc' = "pmLine"
    /\ UNCHANGED <<SunJson, upstream, logs, angles, slots, result, saved, created, fnVars>>

DrawPmTwilightLine ==
    /\ pc = "pmLine"
    /\ trace' = trace \o Marker("pmTwilightLine", angles.pmTwilightAngle, TRUE)
    /\ pc' = "sun"
    /\ UNCHANGED <<SunJson, upstream, logs, angles, slots, result, saved, created, fnVars>>

\* mutant: the bounds are closed (>= sunrise, <= sunset)
sunInnerColor_closed(currentTimeAngle, sunriseAngle, sunsetAngle) ==
    IF currentTimeAngle >= sunriseAngle /\ currentTimeAngle <= sunsetAngle
    THEN "sunUpColor" ELSE "sunDownColor"

\* the colour of the inner disc of the sun marker
sunInnerColor(currentTimeAngle, sunriseAngle, sunsetAngle) ==
    IF currentTimeAngle > sunriseAngle /\ currentTimeAngle < sunsetAngle
    THEN "sunUpColor" ELSE "sunDownColor"

DrawSun ==
    /\ pc = "sun"
    /\ trace' = trace
          \o <<Ev("save", "", 0), Ev("translate", "center", 1),
               Ev("rotate", "sun", getRenderAngle(angles.currentTimeAngle)),
               Ev("fill", "backgroundColor", 0),
               Ev("fill", "sunArcColor", 0),
               Ev("fill", sunInnerColor(angles.currentTimeAngle, angles.sunriseAngle,
                                        angles.sunsetAngle), 0),
               Ev("rotate", "sun", 0 - getRenderAngle(angles.currentTimeAngle)),
               Ev("restore", "", 0)>>
    /\ pc' = "place"
    /\ UNCHANGED <<SunJson, upstream, logs, angles, slots, result, saved, created, fnVars>>

PlaceLabels ==
    /\ pc = "place"
    /\ slots' = [sunriseXY    |-> sunriseSlots(angles.sunriseAngle).sunriseXY,
                 amTwilightXY |-> sunriseSlots(angles.sunriseAngle).amTwilightXY,
                 sunsetXY     |-> sunsetSlots(angles.sunsetAngle).sunsetXY,
                 pmTwilightXY |-> sunsetSlots(angles.sunsetAngle).pmTwilightXY]
    /\ trace' = Append(trace, Ev("placeLabels", "", 0))
    /\ pc' = "labels"
    /\ UNCHANGED <<SunJson, upstream, logs, angles, result, saved, created, fnVars>>

DrawLabels ==
    /\ pc = "labels"
    /\ logs' = logs \o formatTime(SunJson.sunrise).warn \o formatTime(SunJson.sunset).warn
                    \o formatTime(SunJson.firstLight).warn
                    \o formatTime(SunJson.lastLight).warn
    /\ trace' = trace
          \o <<Ev("centerText", "Sunrise", 0), Ev("centerText", "sunriseTime", 0),
               Ev("centerText", "Sunset", 0), Ev("centerText", "sunsetTime", 0),
               Ev("centerText", "First light", 0), Ev("centerText", "firstLightTime", 0),
               Ev("centerText", "Last light", 0), Ev("centerText", "lastLightTime", 0)>>
    /\ pc' = "date"
    /\ UNCHANGED <<SunJson, upstream, angles, slots, result, saved, created, fnVars>>

DrawDate ==
    /\ pc = "date"
    /\ trace' = Append(trace, Ev("fillText", "date", 0))
    /\ pc' = "encode"
    /\ UNCHANGED <<SunJson, upstream, logs, angles, slots, result, saved, created, fnVars>>

\* jpeg.encode, and getImage returns the ImageResult
Encode ==
    /\ pc = "encode"
    /\ trace' = Append(trace, Ev("encode", "", 0))
    /\ result' = [kind |-> "image", imageType |-> "jpg", imageData |-> "jpegImg"]
    /\ pc' = "gotResult"
    /\ UNCHANGED <<SunJson, upstream, logs, angles, slots, saved, created, fnVars>>

\* mutant: the null check is lost
resultUsable_always(res) == res.kind # "none"

\* result !== null && result.imageData !== null
resultUsable(res) == res.kind # "null" /\ res.imageData # "null"

\* CreateImages: the image is written
WriteImage ==
    /\ pc = "gotResult"
    /\ resultUsable(result)
    /\ logs' = logs \o Info("CreateImages")
    /\ saved' = Append(saved, [data |-> result.imageData, threw |-> FALSE])
    /\ created' = "true"
    /\ pc' = "done"
    /\ UNCHANGED <<SunJson, upstream, trace, angles, slots, result, fnVars>>

\* CreateImages: writer.saveFile throws
WriteImageThrows ==
    /\ pc = "gotResult"
    /\ resultUsable(result)
    /\ logs' = logs \o Info("CreateImages")
    /\ saved' = Append(saved, [data |-> result.imageData, threw |-> TRUE])
    /\ pc' = "catch"
    /\ UNCHANGED <<SunJson, upstream, trace, angles, slots, result, created, fnVars>>

\* CreateImages: no image available
NoImage ==
    /\ pc = "gotResult"
    /\ ~resultUsable(result)
    /\ logs' = logs \o Warn("CreateImages")
    /\ created' = "false"
    /\ pc' = "done"
    /\ UNCHANGED <<SunJson, upstream, trace, angles, slots, result, saved, fnVars>>

\* mutant: the catch block logs and falls through to the final return true
CatchError_fallsThrough ==
    /\ pc = "catch"
    /\ logs' = logs \o Error("CreateImages")
    /\ created' = "true"
    /\ pc' = "done"
    /\ UNCHANGED <<SunJson, upstream, trace, angles, slots, result, saved, fnVars>>

\* CreateImages: the catch block
CatchError ==
    /\ pc = "catch"
    /\ logs' = logs \o Error("CreateImages")
    /\ created' = "false"
    /\ pc' = "done"
    /\ UNCHANGED <<SunJson, upstream, trace, angles, slots, result, saved, fnVars>>

----------------------------------------------------------------------------
(* The drawing context: its current transform and its stack of saved      *)
(* transforms, as the save/translate/rotate/restore calls of the trace    *)
(* leave them.  A transform is the sequence of translations (in units of  *)
(* (centerX, centerY)) and rotations (in units of PI/720) applied since   *)
(* the identity, adjacent ones of a kind added up and dropped at zero.    *)

ctxIdentity == <<>>

ctxInit == [transform |-> ctxIdentity, stack |-> <<>>, underflow |-> FALSE]

ctxCompose(t, kind, n) ==
    IF t # <<>> /\ t[Len(t)].kind = kind
    THEN IF t[Len(t)].n + n = 0
         THEN SubSeq(t, 1, Len(t) - 1)
         ELSE [t EXCEPT ![Len(t)].n = @ + n]
    ELSE IF n = 0 THEN t ELSE Append(t, [kind |-> kind, n |-> n])

ctxApply(c, e) ==
    CASE e.op = "save" -> [c EXCEPT !.stack = Append(@, c.transform)]
      [] e.op = "restore" ->
            IF c.stack = <<>> THEN [c EXCEPT !.underflow = TRUE]
            ELSE [c EXCEPT !.transform = c.stack[Len(c.stack)],
                           !.stack = SubSeq(@, 1, Len(@) - 1)]
      [] e.op = "translate" -> [c EXCEPT !.transform = ctxCompose(@, "translate", e.n)]
      [] e.op = "rotate" -> [c EXCEPT !.transform = ctxCompose(@, "rotate", e.n)]
      [] OTHER -> c

\* the context after each event of evs
RECURSIVE ctxRun(_, _, _)
ctxRun(evs, c, acc) ==
    IF Len(acc) = Len(evs) THEN acc
    ELSE LET c2 == ctxApply(c, evs[Len(acc) + 1])
         IN  ctxRun(evs, c2, Append(acc, c2))

ctxHistory == ctxRun(trace, ctxInit, <<>>)

Next ==
    \/ CreateImagesEnter
    \/ GetSunDataRecord
    \/ GetSunDataNull
    \/ GetSunDataThrows
    \/ DeriveTwilight
    \/ FixMoon
    \/ Setup
    \/ SetupThrows
    \/ DrawBackground
    \/ DrawTitle
    \/ DrawTicks
    \/ DrawTestCircle
    \/ DrawDialCircle
    \/ DrawCardinalLabels
    \/ ComputeAngles
    \/ DrawDayArc
    \/ DrawAmTwilightArc
    \/ DrawSunriseLine
    \/ DrawAmTwilightLine
    \/ DrawPmTwilightArc
    \/ DrawSunsetLine
    \/ DrawPmTwilightLine
    \/ DrawSun
    \/ PlaceLabels
    \/ DrawLabels
    \/ DrawDate
    \/ Encode
    \/ WriteImage
    \/ WriteImageThrows
    \/ NoImage
    \/ CatchError

Spec == Init /\ [][Next]_vars

----------------------------------------------------------------------------
(* Claims about the pure functions, checked under SpecFn *)

\* the input of the harness is a well-formed time, of minute-of-day InMinutes
InValid == fnIn.kind = "time" /\ fnIn.cls = "valid"
InMinutes == fnIn.h * 60 + fnIn.m
DayMinutes == 24 * 60

\* a string that getAngle accepts, read as its minute of the day
IsTimeAt(str, minutes) == getAngle(str) = [ret |-> minutes, warn |-> <<>>]

\* C1: for every valid sunset with sunset + 96 minutes before midnight,
\* getTwilight(sunset, "pm") returns the 24-hour time 96 minutes after sunset,
\* whose dial angle is sunsetAngle + 24 degrees.
C1_LastLightIs96MinutesAfterSunset ==
    (fnName = "getTwilight" /\ fnOut.amPm = "pm" /\ InValid
        /\ InMinutes + 96 < DayMinutes)
    => /\ IsTimeAt(fnOut.ret, InMinutes + 96)
       /\ getAngle(fnOut.ret).ret = getAngle(fnIn.str).ret + Deg(twilightDegrees)

\* C2: for every valid sunrise, getTwilight(sunrise, "am") returns a time that,
\* with 96 minutes added back modulo 24 hours, is the sunrise again.
C2_FirstLightPlus96IsSunrise ==
    (fnName = "getTwilight" /\ fnOut.amPm = "am" /\ InValid)
    => \E t \in 0..(DayMinutes - 1) :
          /\ IsTimeAt(fnOut.ret, t)
          /\ (t + 96) % DayMinutes = InMinutes

C5_MalformedTimeGivesZeroAndOneWarning ==
    fnName = "getAngle"
    => /\ (fnIn.kind = "literal" \/ fnIn.cls # "valid")
            => (fnOut.ret = 0 /\ fnOut.warn = Warn("getAngle"))
       /\ InValid => fnOut.warn = <<>>

\* C6: for every valid time formatTime returns "H:MM AM/PM": H is 12 when
\* h mod 12 = 0 and h mod 12 otherwise, without a leading zero, MM is the
\* minute padded to two digits, and the suffix is PM exactly when h >= 12.
C6_FormatTimeTwelveHourClock ==
    (fnName = "formatTime" /\ InValid)
    => /\ fnOut.ret = NatToString(IF fnIn.h % 12 = 0 THEN 12 ELSE fnIn.h % 12)
                        \o <<":">> \o Pad2(fnIn.m) \o <<" ">>
                        \o (IF fnIn.h >= 12 THEN <<"P", "M">> ELSE <<"A", "M">>)
       /\ fnOut.warn = <<>>
       /\ (fnIn.h = 0 /\ fnIn.m = 0)
            => fnOut.ret = <<"1", "2", ":", "0", "0", " ", "A", "M">>
       /\ (fnIn.h = 12 /\ fnIn.m = 0)
            => fnOut.ret = <<"1", "2", ":", "0", "0", " ", "P", "M">>
       /\ (fnIn.h = 23 /\ fnIn.m = 59)
            => fnOut.ret = <<"1", "1", ":", "5", "9", " ", "P", "M">>
       /\ (fnIn.h = 9 /\ fnIn.m = 5)
            => fnOut.ret = <<"9", ":", "0", "5", " ", "A", "M">>

C6_Witness ==
    /\ fnName = "formatTime"
    /\ fnIn.str = <<"0", "9", ":", "0", "5">>
    /\ fnOut.ret = <<"9", ":", "0", "5", " ", "A", "M">>

\* the index of a label anchor in labelSlots
SlotIndex(p) == CHOOSE i \in 0..8 : Slot(i) = p

\* the documented branch tables, as <<slot of the event, slot of its twilight>>
SunriseTable(a) ==
    {pair \in {<<2, 3>>, <<1, 2>>, <<0, 1>>} :
        \/ pair = <<2, 3>> /\ a <= Deg(90)
        \/ pair = <<1, 2>> /\ Deg(90) < a /\ a < Deg(114)
        \/ pair = <<0, 1>> /\ a >= Deg(114)}

SunsetTable(a) ==
    {pair \in {<<4, 5>>, <<5, 6>>, <<6, 7>>, <<7, 8>>} :
        \/ pair = <<4, 5>> /\ a <= Deg(246)
        \/ pair = <<5, 6>> /\ Deg(246) < a /\ a < Deg(270)
        \/ pair = <<6, 7>> /\ Deg(270) <= a /\ a <= Deg(290)
        \/ pair = <<7, 8>> /\ a > Deg(290)}

SunrisePair == <<SlotIndex(fnOut.ret.sunrise.sunriseXY), SlotIndex(fnOut.ret.sunrise.amTwilightXY)>>
SunsetPair == <<SlotIndex(fnOut.ret.sunset.sunsetXY), SlotIndex(fnOut.ret.sunset.pmTwilightXY)>>

\* C7: for every angle in [0, 360) exactly one sunrise branch and exactly one
\* sunset branch applies, and the slots are those of that branch; 90 -> 2/3,
\* 114 -> 0/1, 246 -> 4/5, 270 -> 6/7, 290 -> 6/7.
C7_LabelSlotsTotalAndAsDocumented ==
    (fnName = "labelSlots" /\ InValid)
    => /\ SunriseTable(InMinutes) = {SunrisePair}
       /\ SunsetTable(InMinutes) = {SunsetPair}
       /\ InMinutes = Deg(90)  => SunrisePair = <<2, 3>>
       /\ InMinutes = Deg(114) => SunrisePair = <<0, 1>>
       /\ InMinutes = Deg(246) => SunsetPair = <<4, 5>>
       /\ InMinutes = Deg(270) => SunsetPair = <<6, 7>>
       /\ InMinutes = Deg(290) => SunsetPair = <<6, 7>>

C7_Witness ==
    /\ fnName = "labelSlots"
    /\ InValid
    /\ InMinutes = Deg(290)
    /\ SunsetPair = <<6, 7>>
    /\ SunrisePair = <<0, 1>>

----------------------------------------------------------------------------
(* Claims about CreateImages and getImage, checked under Spec *)

\* the positions of the events of one kind in the trace
Pos(op) == {i \in DOMAIN trace : trace[i].op = op}

LabelsPlaced == Pos("placeLabels") # {}

December ==
    /\ upstream.sunrise = <<"0", "7", ":", "0", "5">>
    /\ upstream.sunset = <<"1", "6", ":", "2", "0">>
    /\ LabelsPlaced

\* C8 as stated: in the December scenario (sunrise 07:05, sunset 16:20) the
\* sunrise angle is above 114, so sunrise is in slot 0 and first light in
\* slot 1; the sunset angle is at most 246, so sunset is in slot 4 and last
\* light in slot 5.
C8_DecemberAsStated ==
    December
    => /\ angles.sunriseAngle > Deg(114)
       /\ slots.sunriseXY = Slot(0) /\ slots.amTwilightXY = Slot(1)
       /\ angles.sunsetAngle <= Deg(246)
       /\ slots.sunsetXY = Slot(4) /\ slots.pmTwilightXY = Slot(5)

\* C8 as amended: in the December scenario the sunrise angle is 106.25, between
\* 90 and 114, so sunrise is in slot 1 and first light in slot 2; the sunset
\* angle is 245, at most 246, so sunset is in slot 4 and last light in slot 5.
C8_DecemberSlots ==
    December
    => /\ angles.sunriseAngle = Deg(106) + 1
       /\ angles.sunriseAngle > Deg(90) /\ angles.sunriseAngle < Deg(114)
       /\ slots.sunriseXY = Slot(1) /\ slots.amTwilightXY = Slot(2)
       /\ angles.sunsetAngle = Deg(245)
       /\ angles.sunsetAngle <= Deg(246)
       /\ slots.sunsetXY = Slot(4) /\ slots.pmTwilightXY = Slot(5)

C8_Witness ==
    /\ December
    /\ result.kind = "image"
    /\ slots.sunriseXY = Slot(1)
    /\ slots.sunsetXY = Slot(4)

\* what the sentinel replacement leaves behind, given the upstream record
MoonNormalised ==
    /\ SunJson.moonrise # Sentinel
    /\ SunJson.moonset # Sentinel
    /\ SunJson.moonrise = (IF upstream.moonrise = Sentinel THEN <<"0", ":", "0">>
                           ELSE upstream.moonrise)
    /\ SunJson.moonset = (IF upstream.moonset = Sentinel THEN <<"2", "3", ":", "5", "9">>
                          ELSE upstream.moonset)

MoonFixedOnce ==
    /\ Cardinality(Pos("moonFix")) <= 1
    /\ result.kind = "image" => Cardinality(Pos("moonFix")) = 1
    /\ Pos("moonFix") # {} => MoonNormalised

PrecededByMoonFix(ops) ==
    \A i \in ops : \E j \in Pos("moonFix") : j < i

\* C9 as stated: with an upstream record present, the "-:-" sentinel of
\* moonrise/moonset is replaced exactly once, before the getTwilight calls,
\* before label placement and before any getAngle call; afterwards neither is
\* "-:-" and other values are unchanged.
C9_MoonFixBeforeTwilightAsStated ==
    /\ MoonFixedOnce
    /\ PrecededByMoonFix(Pos("getTwilight") \cup Pos("getAngle") \cup Pos("placeLabels"))

\* C9 as amended: the sentinel is replaced exactly once, after the two
\* getTwilight calls and before label placement and any getAngle call;
\* afterwards neither is "-:-" and other values are unchanged.
C9_MoonFixAfterTwilightBeforeAngles ==
    /\ MoonFixedOnce
    /\ PrecededByMoonFix(Pos("getAngle") \cup Pos("placeLabels"))
    /\ \A j \in Pos("moonFix") :
          /\ Cardinality(Pos("getTwilight")) = 2
          /\ \A i \in Pos("getTwilight") : i < j

C9_Witness ==
    /\ result.kind = "image"
    /\ upstream.moonrise = Sentinel
    /\ upstream.moonset = Sentinel
    /\ SunJson.moonrise = <<"0", ":", "0">>
    /\ SunJson.moonset = <<"2", "3", ":", "5", "9">>
    /\ Pos("getAngle") # {}

GotNull == trace # <<>> /\ trace[1] = Ev("getSunData", "null", 0)

\* C10: when getSunData returns null, getImage returns null without deriving
\* twilight times or drawing anything, and CreateImages logs the "No image
\* available" warning, never calls writer.saveFile, and returns false.
C10_NoDataNoImage ==
    GotNull
    => /\ result = NullResult
       /\ trace = <<Ev("getSunData", "null", 0)>>
       /\ SunJson = NullJson
       /\ saved = <<>>
       /\ pc \in {"gotResult", "done"}
       /\ pc = "done" => (created = "false" /\ logs = Warn("CreateImages"))
       /\ pc = "gotResult" => (created = "pending" /\ logs = <<>>)

C10_Witness ==
    /\ GotNull
    /\ pc = "done"
    /\ created = "false"
    /\ logs = Warn("CreateImages")
    /\ saved = <<>>

\* an exception was thrown inside the try block of CreateImages
Thrown ==
    \/ \E i \in DOMAIN trace : trace[i].what = "throw"
    \/ \E i \in DOMAIN saved : saved[i].threw

ErrorsLogged == {i \in DOMAIN logs : logs[i].level = "error"}

\* C11: CreateImages never lets an exception escape: whatever getImage does
\* (image, null, exception) and whatever saveFile does (return, exception), it
\* returns a boolean; it returns true only if saveFile was called exactly once,
\* with the encoded image data, and returned; after an exception it logs an
\* error and returns false.
C11_CreateImagesAlwaysReturnsBoolean ==
    /\ pc = "done" <=> created \in {"true", "false"}
    /\ pc # "done" => created = "pending"
    /\ created = "true"
         => /\ result.kind = "image"
            /\ saved = <<[data |-> "jpegImg", threw |-> FALSE]>>
            /\ ~Thrown
            /\ ErrorsLogged = {}
    /\ (Thrown /\ pc = "done")
         => /\ created = "false"
            /\ ErrorsLogged = {Len(logs)}
    /\ (Thrown /\ pc # "done") => pc = "catch"
    /\ Len(saved) <= 1

C11_Witness ==
    /\ pc = "done"
    /\ created = "false"
    /\ saved = <<[data |-> "jpegImg", threw |-> TRUE]>>
    /\ logs[Len(logs)] = [level |-> "error", fn |-> "CreateImages"]

\* the strings of the upstream records that are no time, and the empty
\* twilight time derived from them
MalformedStrings == {<<"a", "b", "c">>, <<>>, <<"2", "5", ":", "0", "0">>, <<"1", "2">>}

Bad(str) == IF str \in MalformedStrings THEN 1 ELSE 0

WarnsOf(fn) == Cardinality({i \in DOMAIN logs : logs[i] = [level |-> "warn", fn |-> fn]})

Whats(op) == {trace[i].what : i \in Pos(op)}

AllDrawn ==
    /\ Whats("myFillRect") = {"background"}
    /\ Whats("stroke") = {"minorTick", "majorTick", "dialCircle", "dayArc",
                          "amTwilightArc", "pmTwilightArc", "sunriseLine",
                          "amTwilightLine", "sunsetLine", "pmTwilightLine"}
    /\ Cardinality(Pos("stroke")) = 24 + 4 + 1 + 3 + 4
    /\ Cardinality(Pos("fill")) = 3
    /\ Whats("fillText") = {"title", "12 PM", "12 AM", "6 AM", "6 PM", "date"}
    /\ Cardinality(Pos("centerText")) = 8
    /\ Cardinality(Pos("encode")) = 1

\* C12: a malformed time string never aborts a render: with a non-null
\* upstream record, each failed parse in getTwilight, getAngle and formatTime
\* logs one warning and yields its default (angle 0, empty string), and
\* getImage completes every drawing step and returns an image.
C12_MalformedTimeNeverAbortsRender ==
    /\ pc = "catch" => Thrown
    /\ (~upstream.isNull /\ Pos("getTwilight") # {})
         => /\ WarnsOf("getTwilight") = Bad(upstream.sunrise) + Bad(upstream.sunset)
            /\ Bad(upstream.sunrise) = 1 => SunJson.firstLight = <<>>
            /\ Bad(upstream.sunset) = 1 => SunJson.lastLight = <<>>
    /\ (~upstream.isNull /\ Pos("getAngle") # {})
         => /\ WarnsOf("getAngle") = Bad(upstream.sunrise) + Bad(upstream.sunset)
                                       + Bad(upstream.current_time)
            /\ Bad(upstream.sunrise) = 1 => angles.sunriseAngle = 0
            /\ Bad(upstream.sunset) = 1 => angles.sunsetAngle = 0
            /\ Bad(upstream.current_time) = 1 => angles.currentTimeAngle = 0
    /\ (~upstream.isNull /\ Pos("centerText") # {})
         => WarnsOf("formatTime") = Bad(upstream.sunrise) + Bad(upstream.sunset)
                                      + Bad(SunJson.firstLight) + Bad(SunJson.lastLight)
    /\ (~upstream.isNull /\ pc \in {"gotResult", "done"} /\ ~Thrown)
         => /\ result.kind = "image"
            /\ AllDrawn
    /\ (~upstream.isNull /\ pc = "done" /\ ~Thrown) => created = "true"

C12_Witness ==
    /\ pc = "done"
    /\ created = "true"
    /\ result.kind = "image"
    /\ upstream.sunrise = <<"a", "b", "c">>
    /\ upstream.sunset = <<"2", "5", ":", "0", "0">>
    /\ upstream.current_time = <<"1", "2">>
    /\ WarnsOf("getTwilight") = 2
    /\ WarnsOf("getAngle") = 3
    /\ WarnsOf("formatTime") = 4
    /\ AllDrawn

SunDrawn == Cardinality(Pos("fill")) = 3

\* the colour of the third, inner disc of the sun marker
InnerColor == trace[CHOOSE i \in Pos("fill") : \A j \in Pos("fill") : j <= i].what

\* C13: the inner disc of the sun marker is drawn in the sun-up colour exactly
\* when sunriseAngle < currentTimeAngle < sunsetAngle and in the sun-down
\* colour otherwise, also when the current time equals sunrise or sunset and
\* when the current time does not parse (angle 0).
C13_SunMarkerColor ==
    SunDrawn
    => /\ InnerColor \in {"sunUpColor", "sunDownColor"}
       /\ InnerColor = "sunUpColor"
            <=> (angles.sunriseAngle < angles.currentTimeAngle
                    /\ angles.currentTimeAngle < angles.sunsetAngle)
       /\ angles.currentTimeAngle = angles.sunriseAngle => InnerColor = "sunDownColor"
       /\ angles.currentTimeAngle = angles.sunsetAngle => InnerColor = "sunDownColor"
       /\ Bad(upstream.current_time) = 1
            => (angles.currentTimeAngle = 0 /\ InnerColor = "sunDownColor")
       /\ (/\ upstream.sunrise = <<"0", "5", ":", "1", "0">>
           /\ upstream.sunset = <<"2", "0", ":", "2", "5">>
           /\ upstream.current_time
                = <<"0", "8", ":", "2", "1", ":", "1", "4", ".", "9", "8", "8">>)
            => InnerColor = "sunUpColor"
       /\ (/\ upstream.sunset = <<"1", "8", ":", "0", "0">>
           /\ upstream.current_time
                = <<"1", "8", ":", "0", "0", ":", "3", "0", ".", "0", "0", "0">>)
            => InnerColor = "sunDownColor"

C13_Witness ==
    /\ SunDrawn
    /\ upstream.sunrise = <<"0", "6", ":", "0", "0">>
    /\ upstream.sunset = <<"2", "0", ":", "2", "5">>
    /\ upstream.current_time = <<"0", "6", ":", "0", "0", ":", "0", "0", ".", "0", "0", "0">>
    /\ angles.currentTimeAngle = angles.sunriseAngle
    /\ InnerColor = "sunDownColor"

\* the operations that put pixels on the canvas
DrawOps == {"myFillRect", "fillText", "stroke", "fill", "centerText"}

IsDrawOp(e) == e.op \in DrawOps

DrawnName(w) == IF w \in {"sunUpColor", "sunDownColor"} THEN "innerDisc" ELSE w

\* what has been drawn so far, in order
Drawn ==
    LET d == SelectSeq(trace, IsDrawOp)
    IN  [i \in 1..Len(d) |-> DrawnName(d[i].what)]

Times(n, w) == [i \in 1..n |-> w]

IsPrefix(a, b) == Len(a) <= Len(b) /\ a = SubSeq(b, 1, Len(a))

StaticDial ==
    <<"background", "title">> \o Times(24, "minorTick") \o Times(4, "majorTick")
    \o <<"dialCircle", "12 PM", "12 AM", "6 AM", "6 PM">>

SunAndLabels ==
    <<"backgroundColor", "sunArcColor", "innerDisc",
      "Sunrise", "sunriseTime", "Sunset", "sunsetTime",
      "First light", "firstLightTime", "Last light", "lastLightTime", "date">>

\* the order as stated: both twilight arcs, then the four markers
StatedOrder ==
    StaticDial
    \o <<"dayArc", "amTwilightArc", "pmTwilightArc",
         "sunriseLine", "amTwilightLine", "sunsetLine", "pmTwilightLine">>
    \o SunAndLabels

\* the order of the code: each twilight arc, then the two markers of its side
CodeOrder ==
    StaticDial
    \o <<"dayArc", "amTwilightArc", "sunriseLine", "amTwilightLine",
         "pmTwilightArc", "sunsetLine", "pmTwilightLine">>
    \o SunAndLabels

DrawnAt(d, w) == {i \in DOMAIN d : d[i] = w}

\* in the drawing sequence d, each of ws is drawn before any of vs
Before(d, ws, vs) ==
    \A i \in DOMAIN d :
        d[i] \in vs => \A w \in ws : \E j \in 1..(i - 1) : d[j] = w

MarkerNames == {"sunriseLine", "amTwilightLine", "sunsetLine", "pmTwilightLine"}
ArcNames == {"dayArc", "amTwilightArc", "pmTwilightArc"}
SunDiscNames == {"backgroundColor", "sunArcColor", "innerDisc"}

\* C14 as stated: the drawing steps happen in the documented order, with the
\* daytime arc and both twilight arcs before the four radial markers: no
\* marker is stroked before both twilight arcs, and the sun marker is drawn
\* after every arc and marker.
C14_DrawingOrderAsStated ==
    LET d == Drawn
    IN  /\ IsPrefix(d, StatedOrder)
        /\ result.kind = "image" => d = StatedOrder
        /\ Before(d, {"amTwilightArc", "pmTwilightArc"}, MarkerNames)
        /\ Before(d, ArcNames \cup MarkerNames, SunDiscNames)

\* C14 as amended: the order is background, title, minor then major ticks,
\* dial circle, cardinal labels, daytime arc, AM twilight arc, sunrise and
\* AM-twilight markers, PM twilight arc, sunset and PM-twilight markers, sun
\* marker (clearing disc, marker disc, inner disc), the four labels, the
\* timestamp: each marker is stroked after the twilight arc of its own side,
\* and the sun marker is drawn after every arc and marker.
C14_DrawingOrder ==
    LET d == Drawn
    IN  /\ IsPrefix(d, CodeOrder)
        /\ result.kind = "image" => d = CodeOrder
        /\ Before(d, {"dayArc", "amTwilightArc"}, {"sunriseLine", "amTwilightLine"})
        /\ Before(d, {"sunriseLine", "amTwilightLine"}, {"pmTwilightArc"})
        /\ Before(d, ArcNames, {"sunsetLine", "pmTwilightLine"})
        /\ Before(d, ArcNames \cup MarkerNames, SunDiscNames)

C14_Witness ==
    /\ result.kind = "image"
    /\ LET d == Drawn
       IN  /\ d = CodeOrder
           /\ DrawnAt(d, "pmTwilightArc") # {}
           /\ \A i \in DrawnAt(d, "sunriseLine") :
                 \A j \in DrawnAt(d, "pmTwilightArc") : i < j

\* the operations that draw with absolute canvas coordinates, and the encoder
AbsoluteOps == {"myFillRect", "fillText", "centerText", "arc", "encode"}
AbsoluteStrokes == {"dialCircle", "dayArc", "amTwilightArc", "pmTwilightArc"}

IsAbsolute(e) ==
    \/ e.op \in AbsoluteOps
    \/ e.op = "stroke" /\ e.what \in AbsoluteStrokes

\* C15: within getImage the transform stack is balanced: every save has one
\* matching restore, the save depth is never below 0 or above 1, and after
\* each restore (so wherever something is drawn with absolute coordinates,
\* and at encode time) the transform is the identity, whatever was rotated
\* and translated between save and restore.
C15_TransformStackBalanced ==
    LET h == ctxHistory
    IN  /\ \A i \in DOMAIN trace :
              /\ Len(h[i].stack) \in {0, 1}
              /\ ~h[i].underflow
              /\ trace[i].op = "save" => Len(h[i].stack) = 1
              /\ trace[i].op = "restore"
                   => (h[i].stack = <<>> /\ h[i].transform = ctxIdentity)
              /\ IsAbsolute(trace[i])
                   => (h[i].stack = <<>> /\ h[i].transform = ctxIdentity)
        /\ pc \notin {"idle", "getSunData"}
             => (h[Len(h)].stack = <<>> /\ h[Len(h)].transform = ctxIdentity)
        /\ Cardinality(Pos("restore")) = Cardinality(Pos("save"))
        /\ result.kind = "image" => Cardinality(Pos("save")) = 6

\* a render in which a restore, not the calls before it, brought back the identity
C15_Witness ==
    /\ result.kind = "image"
    /\ Cardinality(Pos("save")) = 6
    /\ LET h == ctxHistory
       IN  /\ \E i \in Pos("restore") :
                /\ trace[i - 1].what = "majorTick"
                /\ h[i - 1].transform = <<[kind |-> "translate", n |-> 1],
                                          [kind |-> "rotate", n |-> 2 * Deg(360)]>>
                /\ h[i].transform = ctxIdentity
           /\ \E i \in Pos("restore") :
                /\ trace[i - 1].what = "sunriseLine"
                /\ h[i - 1].transform = <<[kind |-> "translate", n |-> 1]>>
           /\ \E i \in Pos("restore") :
                /\ trace[i - 1].op = "translate"
                /\ h[i - 1].transform = ctxIdentity

\* a well-formed "HH:MM" time: two digits, a colon, two digits, hour 0..23, minute 0..59
WellFormedTime(str) ==
    \E h \in 0..MaxHour, m \in 0..MaxMinute : str = TimeString(h, m, "hh:mm")

\* C16: for every valid input time and either direction, getTwilight returns
\* a well-formed "HH:MM" time (hour 0..23, minute 0..59) that formatTime and
\* getAngle accept without a warning, so the First light / Last light label
\* is never empty for a valid sunrise or sunset.
C16_TwilightIsWellFormedTime ==
    (fnName = "getTwilight" /\ InValid)
    => /\ WellFormedTime(fnOut.ret)
       /\ formatTime(fnOut.ret).warn = <<>>
       /\ formatTime(fnOut.ret).ret # <<>>
       /\ getAngle(fnOut.ret).warn = <<>>

====
